---- MODULE Spec2Model ----
(***************************************************************************)
(* Taxonomy reconciliation of the annotation catalogue: the Organism,      *)
(* TaxonNode, GenomeAssembly and GenomeAnnotation stores and the jobs that *)
(* read and write them (handle_taxonomy, rebuild_taxon_hierarchy_from_     *)
(* lineages, update_db_stats, update_taxonomy) together with the ENA       *)
(* record parser.                                                          *)
(*                                                                         *)
(* Stores are functions from the key (taxid, accession, annotation id) to  *)
(* the document.  Of a document the model keeps taxid, taxon_lineage,      *)
(* children and the three rollup counters of a TaxonNode; `children` is    *)
(* kept as a set (the code stores a list it only ever treats as a set:     *)
(* $addToSet, $pullAll, $set of a sorted list).  A missing XML attribute   *)
(* is NoId for an identifier and "" for a rank.                            *)
(***************************************************************************)
EXTENDS Integers, Sequences, FiniteSets, TLC

VARIABLES
    organisms,      \* Organism store: taxid -> [taxon_lineage]
    taxons,         \* TaxonNode store: taxid -> [children, *_count]
    assemblies,     \* GenomeAssembly store: accession -> [taxid, taxon_lineage]
    annotations,    \* GenomeAnnotation store: id -> [taxid, taxon_lineage, assembly_accession]
    pcH, hv,        \* handle_taxonomy: position and locals
    pcR, rv,        \* rebuild_taxon_hierarchy_from_lineages: position and locals
    pcS, sv,        \* update_db_stats: position and locals
    pcU, uv,        \* update_taxonomy: position and locals
    h_ret,          \* the map last returned by handle_taxonomy
    last,           \* the event that produced the current state
    fresh,          \* TRUE while no store changed since the last rebuild ended
    ops,            \* number of jobs and leaf changes started so far
    overlap,        \* TRUE if a job started beside another since the stores were last quiet
    raced,          \* TRUE once two jobs have run at the same time
    dropped,        \* taxids referenced by a leaf record that has since been deleted
    raw, parsed,    \* parser input (one fetched payload) and its output
    fv,             \* fetch_new_organisms run on its own: position and locals
    values, dist,   \* compute_distribution_stats: its sample and its result
    gene_counts,    \* annotation id -> features_statistics.gene_category_stats
    stats,          \* TaxonNode.stats: taxid -> category -> distribution
    walk            \* get_ancestors: position and the parent it has found

stores == <<organisms, taxons, assemblies, annotations>>
vars == <<organisms, taxons, assemblies, annotations, pcH, hv, pcR, rv, pcS, sv,
          pcU, uv, h_ret, last, fresh, ops, overlap, raced, dropped, raw, parsed,
          fv, values, dist, gene_counts, stats, walk>>
\* what the jobs on the four stores never touch
aux == <<raw, parsed, fv, values, dist, gene_counts, stats, walk>>

----------------------------------------------------------------------------
(* Bounds of the model *)

\* jobs and leaf changes in one behaviour
MaxOps == 5
\* annotation documents that can exist at once
MaxAnnotations == 2
\* assembly documents that can exist at once
MaxAssemblies == 1
\* ancestor elements of a raw record drawn for the parser
MaxAncestors == 2
\* records of a payload drawn for the parser
MaxRecords == 1
\* jobs started in a run where the rebuild runs beside handle_taxonomy
MaxRaceOps == 4
\* jobs started in a run where update_taxonomy runs beside handle_taxonomy
MaxIngestOps == 2
\* batch_size of handle_taxonomy, save_taxons, update_taxonomy and the rebuild, scaled down
BatchSize == 1

NoId == 0
RootId == 9
Species == {1, 2}
TaxIds == {1, 2, 3, 4}
AnnIds == 1..MaxAnnotations
AsmIds == 1..MaxAssemblies

----------------------------------------------------------------------------
(* Sequences and maps *)

Range(s) == {s[i] : i \in DOMAIN s}

RECURSIVE Flatten(_)
Flatten(ss) == IF ss = <<>> THEN <<>> ELSE Head(ss) \o Flatten(Tail(ss))

\* every ordering of a finite set as a list (list(set(...)) fixes no order)
Perms(S) == {s \in [1..Cardinality(S) -> S] : Range(s) = S}

Restrict(f, D) == [k \in D |-> f[k]]

Remove(f, D) == [k \in DOMAIN f \ D |-> f[k]]

\* number of occurrences of x in s
Occurrences(s, x) == Cardinality({i \in DOMAIN s : s[i] = x})

RECURSIVE SumOver(_, _)
SumOver(f, D) ==
    IF D = {} THEN 0
    ELSE LET k == CHOOSE k \in D : TRUE IN f[k] + SumOver(f, D \ {k})

\* create_batches(items, n): consecutive chunks of at most n items
RECURSIVE create_batches(_, _)
create_batches(items, n) ==
    IF items = <<>> THEN <<>>
    ELSE IF Len(items) <= n THEN <<items>>
    ELSE <<SubSeq(items, 1, n)>> \o create_batches(SubSeq(items, n + 1, Len(items)), n)

----------------------------------------------------------------------------
(* The lineage parser *)

\* one <taxon> element of a lineage: taxId (NoId: attribute missing),
\* scientificName, rank ("": attribute missing)
Elem(id, name, rank) == [taxId |-> id, scientificName |-> name, rank |-> rank]

\* mutant: the filter forgets the name "root"
SkipAncestor_idonly(lt) == lt.taxId = NoId

\* the filter of the lineage loop: a missing identifier or the name "root"
SkipAncestor(lt) == lt.taxId = NoId \/ lt.scientificName = "root"

\* mutant: the rank is taken as received, without the default
AncestorNode_norank(lt) ==
    [taxid |-> lt.taxId, scientific_name |-> lt.scientificName, rank |-> lt.rank]

\* TaxonNode candidate of an ancestor element
AncestorNode(lt) ==
    [taxid |-> lt.taxId, scientific_name |-> lt.scientificName,
     rank |-> IF lt.rank = "" THEN "other" ELSE lt.rank]

\* the ancestors kept by the lineage loop, in the order received
RECURSIVE KeptAncestors(_)
KeptAncestors(elems) ==
    IF elems = <<>> THEN <<>>
    ELSE IF SkipAncestor(Head(elems)) THEN KeptAncestors(Tail(elems))
    ELSE <<Head(elems)>> \o KeptAncestors(Tail(elems))

\* one top-level <taxon> element turned into an OrganismToProcess
ParseOrganism(rec) ==
    LET kept == KeptAncestors(rec.lineage) IN
    [taxid |-> rec.taxId,
     organism_name |-> rec.scientificName,
     taxon_lineage |-> <<rec.taxId>> \o [i \in 1..Len(kept) |-> kept[i].taxId],
     parsed_taxon_lineage |->
        <<[taxid |-> rec.taxId, scientific_name |-> rec.scientificName,
           rank |-> "organism"]>>
        \o [i \in 1..Len(kept) |-> AncestorNode(kept[i])]]

\* parse_taxons_and_organisms_from_ena_browser: the organisms of one payload,
\* a top-level element without a taxId yields nothing
RECURSIVE parse_taxons_and_organisms_from_ena_browser(_)
parse_taxons_and_organisms_from_ena_browser(payload) ==
    IF payload = <<>> THEN <<>>
    ELSE IF Head(payload).taxId = NoId
         THEN parse_taxons_and_organisms_from_ena_browser(Tail(payload))
    ELSE <<ParseOrganism(Head(payload))>>
         \o parse_taxons_and_organisms_from_ena_browser(Tail(payload))

----------------------------------------------------------------------------
(* The lineage source (ENA): what a fetch of one identifier may answer *)

NoRecord == [taxId |-> NoId, scientificName |-> "", lineage |-> <<>>]

\* species 1 under genus 3 and family 4; the chain also carries an element
\* without identifier and the root element
RecA == [taxId |-> 1, scientificName |-> "sp1",
         lineage |-> <<Elem(3, "genus3", "genus"), Elem(NoId, "unnamed", "clade"),
                       Elem(4, "family4", ""), Elem(RootId, "root", "")>>]
\* species 1 after a revision of the taxonomy: directly under family 4
RecA2 == [taxId |-> 1, scientificName |-> "sp1",
          lineage |-> <<Elem(4, "family4", "family"), Elem(RootId, "root", "")>>]
\* species 2 under genus 3 and family 4
RecB == [taxId |-> 2, scientificName |-> "sp2",
         lineage |-> <<Elem(3, "genus3", "genus"), Elem(4, "family4", "family")>>]

\* identifier 2 may have been merged into 1 upstream: the record of 1 answers
Answers(t) == IF t = 1 THEN {RecA, RecA2} ELSE {RecB, RecA}

\* the payloads a fetch of `batch` (a list of identifiers) may produce: per
\* identifier one of its records or none; <<>> stands for a failed fetch too
Payloads(batch) ==
    {Flatten([i \in DOMAIN batch |-> IF a[i] = NoRecord THEN <<>> ELSE <<a[i]>>]) :
        a \in {f \in [DOMAIN batch -> UNION {Answers(t) : t \in Range(batch)} \cup {NoRecord}] :
                 \A i \in DOMAIN batch : f[i] \in Answers(batch[i]) \cup {NoRecord}}}

\* fetch_new_organisms(taxids, tmp_dir, batch_size): the lists it may return for
\* the batches of `taxids`: a failed or empty batch is skipped, the others parsed
RECURSIVE FetchBatches(_)
FetchBatches(batches) ==
    IF batches = <<>> THEN {<<>>}
    ELSE {parse_taxons_and_organisms_from_ena_browser(p) \o rest :
            p \in Payloads(Head(batches)), rest \in FetchBatches(Tail(batches))}

fetch_new_organisms(taxids, batch_size) == FetchBatches(create_batches(taxids, batch_size))

----------------------------------------------------------------------------
(* Stores *)

Empty == [k \in {} |-> k]

Put(f, k, v) == [x \in DOMAIN f \cup {k} |-> IF x = k THEN v ELSE f[x]]

\* a TaxonNode document as inserted: no children, counters at their default
NewTaxonNode == [children |-> {}, annotations_count |-> 0, assemblies_count |-> 0,
                 organisms_count |-> 0]

\* insert(batch) on a collection with a unique key: the documents are written in
\* order up to the first one whose key is already present, which raises
RECURSIVE InsertOrdered(_, _, _)
InsertOrdered(store, keys, docs) ==
    IF keys = <<>> THEN [store |-> store, ok |-> TRUE]
    ELSE IF Head(keys) \in DOMAIN store THEN [store |-> store, ok |-> FALSE]
    ELSE InsertOrdered(Put(store, Head(keys), Head(docs)), Tail(keys), Tail(docs))

\* {"$match": taxon_lineage not empty}, {"$group": {"_id": "$taxon_lineage"}}
DistinctLineages(store) == {store[k].taxon_lineage : k \in DOMAIN store} \ {<<>>}

\* mutant: the loop stops one pair early
LineagePairs_short(lineage) ==
    {<<lineage[i], lineage[i + 1]>> : i \in 1..(Len(lineage) - 2)}

\* the (child, parent) pairs of one lineage: lineage[i], lineage[i + 1]
LineagePairs(lineage) ==
    {<<lineage[i], lineage[i + 1]>> : i \in 1..(Len(lineage) - 1)}

\* parent_to_children[parent].add(child) for every pair of every lineage; the
\* dictionary of sets is kept as its set of (child, parent) entries
AddLineages(edges, lineages) == edges \cup UNION {LineagePairs(l) : l \in lineages}

ParentKeys(edges) == {e[2] : e \in edges}

ExpectedChildren(edges, p) == {e[1] : e \in {x \in edges : x[2] = p}}

\* mutant: $addToSet of the expected children instead of $set
SetChildren_union(tx, t, kids) ==
    IF t \in DOMAIN tx THEN [tx EXCEPT ![t].children = @ \cup kids] ELSE tx

\* UpdateOne({'taxid': t}, {'$set': {'children': kids}}): no upsert
SetChildren(tx, t, kids) ==
    IF t \in DOMAIN tx THEN [tx EXCEPT ![t].children = kids] ELSE tx

\* mutant: the clearing phase finds nothing
NodesToClear_none(tx, keys) == {}

\* mutant: the find without its $nin filter
NodesToClear_all(tx, keys) == {t \in DOMAIN tx : tx[t].children # {}}

\* the find of the clearing phase: nodes outside the computed map with children
NodesToClear(tx, keys) == {t \in DOMAIN tx : t \notin keys /\ tx[t].children # {}}

\* mutant: the modify sets the children to the one child
AddChild_set(tx, father, child) ==
    IF father \in DOMAIN tx
    THEN [tx EXCEPT ![father].children = {child}] ELSE tx

\* father_taxon.modify(add_to_set__children=child): no effect on a deleted node
AddChild(tx, father, child) ==
    IF father \in DOMAIN tx
    THEN [tx EXCEPT ![father].children = @ \cup {child}] ELSE tx

----------------------------------------------------------------------------
(* Scheduling: which jobs are running *)

Busy == (IF pcH = "idle" THEN {} ELSE {"H"}) \cup (IF pcR = "idle" THEN {} ELSE {"R"})
        \cup (IF pcS = "idle" THEN {} ELSE {"S"}) \cup (IF pcU = "idle" THEN {} ELSE {"U"})

\* a job may start beside the running jobs in `conc` only
CanStart(conc) == Busy \subseteq conc /\ ops < MaxOps

sched == <<ops, overlap, raced>>

\* the start of a job or of a leaf change
Start(conc) ==
    /\ CanStart(conc)
    /\ ops' = ops + 1
    /\ overlap' = (Busy # {})
    /\ raced' = (raced \/ Busy # {})

NoLocals == [none |-> TRUE]

Init ==
    /\ organisms = Empty /\ taxons = Empty /\ assemblies = Empty /\ annotations = Empty
    /\ pcH = "idle" /\ hv = NoLocals
    /\ pcR = "idle" /\ rv = NoLocals
    /\ pcS = "idle" /\ sv = NoLocals
    /\ pcU = "idle" /\ uv = NoLocals
    /\ h_ret = [input |-> {}, lineages |-> Empty, path |-> "none"]
    /\ last = "init"
    /\ fresh = FALSE
    /\ ops = 0 /\ overlap = FALSE /\ raced = FALSE
    /\ dropped = {}
    /\ raw = <<>> /\ parsed = <<>>
    /\ fv = NoLocals
    /\ values = <<>> /\ dist = NoLocals
    /\ gene_counts = Empty /\ stats = Empty
    /\ walk = NoLocals

H_unch == UNCHANGED <<pcH, hv, h_ret>>
R_unch == UNCHANGED <<pcR, rv>>
S_unch == UNCHANGED <<pcS, sv>>
U_unch == UNCHANGED <<pcU, uv>>
P_unch == UNCHANGED <<aux, dropped>>

----------------------------------------------------------------------------
(* Leaf records: written by the import from the map handle_taxonomy returned, *)
(* and deleted by the catalogue's maintenance                                  *)

AddAssembly(b, t) ==
    /\ Start({}) /\ b \notin DOMAIN assemblies /\ t \in DOMAIN h_ret.lineages
    /\ assemblies' = Put(assemblies, b, [taxid |-> t, taxon_lineage |-> h_ret.lineages[t]])
    /\ last' = "leaf" /\ fresh' = FALSE
    /\ UNCHANGED <<organisms, taxons, annotations>>
    /\ H_unch /\ R_unch /\ S_unch /\ U_unch /\ P_unch

AddAnnotation(a, b) ==
    /\ Start({}) /\ a \notin DOMAIN annotations /\ b \in DOMAIN assemblies
    /\ assemblies[b].taxid \in DOMAIN h_ret.lineages
    /\ annotations' = Put(annotations, a,
          [taxid |-> assemblies[b].taxid, taxon_lineage |-> h_ret.lineages[assemblies[b].taxid],
           assembly_accession |-> b])
    /\ last' = "leaf" /\ fresh' = FALSE
    /\ UNCHANGED <<organisms, taxons, assemblies>>
    /\ H_unch /\ R_unch /\ S_unch /\ U_unch /\ P_unch

DeleteAnnotation(a) ==
    /\ Start({}) /\ a \in DOMAIN annotations
    /\ annotations' = Remove(annotations, {a})
    /\ dropped' = dropped \cup Range(annotations[a].taxon_lineage)
    /\ last' = "leaf" /\ fresh' = FALSE
    /\ UNCHANGED <<organisms, taxons, assemblies, aux>>
    /\ H_unch /\ R_unch /\ S_unch /\ U_unch

DeleteAssembly(b) ==
    /\ Start({}) /\ b \in DOMAIN assemblies
    /\ assemblies' = Remove(assemblies, {b})
    /\ dropped' = dropped \cup Range(assemblies[b].taxon_lineage)
    /\ last' = "leaf" /\ fresh' = FALSE
    /\ UNCHANGED <<organisms, taxons, annotations, aux>>
    /\ H_unch /\ R_unch /\ S_unch /\ U_unch

----------------------------------------------------------------------------
(* rebuild_taxon_hierarchy_from_lineages *)

\* the aggregate over the assemblies
rebuild_read_assemblies(conc) ==
    /\ pcR = "idle" /\ Start(conc)
    /\ rv' = [edges |-> AddLineages({}, DistinctLineages(assemblies)),
              pending |-> {}, repeat |-> fresh, changed |-> FALSE, before |-> taxons,
              after_stats |-> (last = "S_done")]
    /\ pcR' = "annotations"
    /\ last' = "R_step"
    /\ UNCHANGED <<organisms, taxons, assemblies, annotations, fresh>>
    /\ H_unch /\ S_unch /\ U_unch /\ P_unch

\* the aggregate over the annotations
rebuild_read_annotations ==
    /\ pcR = "annotations"
    /\ rv' = [rv EXCEPT !.edges = AddLineages(@, DistinctLineages(annotations))]
    /\ pcR' = "organisms"
    /\ last' = "R_step"
    /\ UNCHANGED <<organisms, taxons, assemblies, annotations, fresh, sched>>
    /\ H_unch /\ S_unch /\ U_unch /\ P_unch

\* the aggregate over the organisms; parent_taxids_list is then fixed
rebuild_read_organisms ==
    /\ pcR = "organisms"
    /\ LET edges == AddLineages(rv.edges, DistinctLineages(organisms)) IN
       rv' = [rv EXCEPT !.edges = edges, !.pending = ParentKeys(edges)]
    /\ pcR' = "write"
    /\ last' = "R_step"
    /\ UNCHANGED <<organisms, taxons, assemblies, annotations, fresh, sched>>
    /\ H_unch /\ S_unch /\ U_unch /\ P_unch

\* one UpdateOne of the unordered bulk writes that set the expected children
rebuild_write(t) ==
    /\ pcR = "write" /\ t \in rv.pending
    /\ taxons' = SetChildren(taxons, t, ExpectedChildren(rv.edges, t))
    /\ rv' = [rv EXCEPT !.pending = @ \ {t}, !.changed = @ \/ taxons' # taxons]
    /\ last' = "R_step"
    /\ UNCHANGED <<organisms, assemblies, annotations, pcR, fresh, sched>>
    /\ H_unch /\ S_unch /\ U_unch /\ P_unch

\* the find that collects the nodes whose children are to be cleared
rebuild_find ==
    /\ pcR = "write" /\ rv.pending = {}
    /\ rv' = [rv EXCEPT !.pending = NodesToClear(taxons, ParentKeys(rv.edges))]
    /\ pcR' = "clear"
    /\ last' = "R_step"
    /\ UNCHANGED <<organisms, taxons, assemblies, annotations, fresh, sched>>
    /\ H_unch /\ S_unch /\ U_unch /\ P_unch

\* one UpdateOne of the unordered bulk write that clears children
rebuild_clear(t) ==
    /\ pcR = "clear" /\ t \in rv.pending
    /\ taxons' = SetChildren(taxons, t, {})
    /\ rv' = [rv EXCEPT !.pending = @ \ {t}, !.changed = @ \/ taxons' # taxons]
    /\ last' = "R_step"
    /\ UNCHANGED <<organisms, assemblies, annotations, pcR, fresh, sched>>
    /\ H_unch /\ S_unch /\ U_unch /\ P_unch

\* the function returns
rebuild_done ==
    /\ pcR = "clear" /\ rv.pending = {}
    /\ pcR' = "idle" /\ rv' = [repeated |-> rv.repeat, changed |-> rv.changed,
                             after_stats |-> rv.after_stats]
    /\ last' = "R_done" /\ fresh' = TRUE
    /\ UNCHANGED <<organisms, taxons, assemblies, annotations, sched>>
    /\ H_unch /\ S_unch /\ U_unch /\ P_unch

rebuild_step ==
    \/ rebuild_read_annotations
    \/ rebuild_read_organisms
    \/ \E t \in TaxIds : rebuild_write(t)
    \/ rebuild_find
    \/ \E t \in TaxIds : rebuild_clear(t)
    \/ rebuild_done

----------------------------------------------------------------------------
(* handle_taxonomy *)

\* mutant: the query of the stored organisms finds none
get_existing_lineages_dict_none(input) == Empty

\* get_existing_lineages_dict: taxid -> lineage of the stored organisms among `input`
get_existing_lineages_dict(input) ==
    [t \in input \cap DOMAIN organisms |-> organisms[t].taxon_lineage]

\* organism.to_organism(): the Organism document of a parsed organism
to_organism(o) == [taxon_lineage |-> o.taxon_lineage]

TaxidsOf(batch) == [i \in DOMAIN batch |-> batch[i].taxid]

\* the taxids of the candidates of `organisms_to_process` that are in
\* new_taxids, each once, in the order of their first occurrence
RECURSIVE FirstOccurrences(_, _, _)
FirstOccurrences(candidates, new_taxids, seen) ==
    IF candidates = <<>> THEN <<>>
    ELSE LET t == Head(candidates).taxid IN
         IF t = NoId \/ t \notin new_taxids \/ t \in seen
         THEN FirstOccurrences(Tail(candidates), new_taxids, seen)
         ELSE <<t>> \o FirstOccurrences(Tail(candidates), new_taxids, seen \cup {t})

\* save_taxons up to create_batches: the taxids to insert, in batches
taxons_to_save(organisms_to_process, tx) ==
    LET all_taxids == UNION {Range(organisms_to_process[i].taxon_lineage) :
                               i \in DOMAIN organisms_to_process}
        new_taxids == all_taxids \ DOMAIN tx
        candidates == Flatten([i \in DOMAIN organisms_to_process |->
                                 organisms_to_process[i].parsed_taxon_lineage])
    IN  FirstOccurrences(candidates, new_taxids, {})

\* get_ordered_taxons: the stored nodes of a lineage, in lineage order
get_ordered_taxons(taxids, tx) == SelectSeq(taxids, LAMBDA t : t \in DOMAIN tx)

\* the (child, father) updates update_taxon_hierarchy issues for ordered_taxons
HierarchyPairs(ordered_taxons) ==
    [i \in 1..(Len(ordered_taxons) - 1) |-> <<ordered_taxons[i], ordered_taxons[i + 1]>>]

\* update_taxon_hierarchy run to its end on `tx`
RECURSIVE ApplyPairs(_, _)
ApplyPairs(tx, pairs) ==
    IF pairs = <<>> THEN tx
    ELSE ApplyPairs(AddChild(tx, Head(pairs)[2], Head(pairs)[1]), Tail(pairs))

\* Organism.objects(taxon_lineage__in=taxids_in_batch): the organisms whose
\* lineage holds a taxid of the batch
OrganismsOfLineage(orgs, taxids_in_batch) ==
    {t \in DOMAIN orgs : Range(orgs[t].taxon_lineage) \cap Range(taxids_in_batch) # {}}

HReturn(input, lineages, path) ==
    /\ h_ret' = [input |-> input, lineages |-> lineages, path |-> path]
    /\ pcH' = "idle" /\ hv' = NoLocals
    /\ last' = "H_ret"

H_frame == /\ fresh' = FALSE
           /\ UNCHANGED <<assemblies, annotations>>
           /\ R_unch /\ S_unch /\ U_unch /\ P_unch

\* lines 25-29: the first read of the organisms and the fast path
handle_taxonomy_start(conc, input) ==
    /\ pcH = "idle" /\ Start(conc)
    /\ LET lineages == get_existing_lineages_dict(input)
           new_taxids == input \ DOMAIN lineages
       IN  IF new_taxids = {}
           THEN HReturn(input, lineages, "fast")
           ELSE /\ hv' = [input |-> input, lineages |-> lineages, new_taxids |-> new_taxids,
                          organisms_to_process |-> <<>>, batches |-> <<>>,
                          saved_taxids |-> <<>>, taxids_in_batch |-> <<>>,
                          failed_taxids |-> {},
                          before |-> [organisms |-> DOMAIN organisms,
                                      taxons |-> DOMAIN taxons],
                          queue |-> <<>>, pairs |-> <<>>]
                /\ pcH' = "fetch" /\ last' = "H_step"
                /\ UNCHANGED h_ret
    /\ UNCHANGED <<organisms, taxons>>
    /\ H_frame

\* line 32 and lines 82-84: fetch and parse every batch, then batch the organisms
handle_taxonomy_fetch ==
    /\ pcH = "fetch"
    /\ \E taxids \in Perms(hv.new_taxids) :
         \E fetched \in fetch_new_organisms(taxids, BatchSize) :
            hv' = [hv EXCEPT !.organisms_to_process = fetched,
                             !.batches = create_batches(fetched, BatchSize)]
    /\ pcH' = "save_organisms" /\ last' = "H_step"
    /\ UNCHANGED <<organisms, taxons, h_ret, sched>>
    /\ H_frame

\* lines 85-89: insert one batch of organisms
save_organisms_insert ==
    /\ pcH = "save_organisms" /\ hv.batches # <<>>
    /\ LET batch == Head(hv.batches)
           taxids_in_batch == TaxidsOf(batch)
           r == InsertOrdered(organisms, taxids_in_batch,
                              [i \in DOMAIN batch |-> to_organism(batch[i])])
       IN  /\ organisms' = r.store
           /\ IF r.ok
              THEN /\ hv' = [hv EXCEPT !.saved_taxids = @ \o taxids_in_batch,
                                       !.batches = Tail(@)]
                   /\ pcH' = "save_organisms"
              ELSE /\ hv' = [hv EXCEPT !.taxids_in_batch = taxids_in_batch,
                                       !.failed_taxids = @ \cup Range(taxids_in_batch),
                                       !.batches = Tail(@)]
                   /\ pcH' = "organisms_rollback"
    /\ last' = "H_step"
    /\ UNCHANGED <<taxons, h_ret, sched>>
    /\ H_frame

\* lines 90-93: the delete after a failed insert of organisms
save_organisms_rollback ==
    /\ pcH = "organisms_rollback"
    /\ organisms' = Remove(organisms, Range(hv.taxids_in_batch))
    /\ hv' = [hv EXCEPT !.taxids_in_batch = <<>>]
    /\ pcH' = "save_organisms" /\ last' = "H_step"
    /\ UNCHANGED <<taxons, h_ret, sched>>
    /\ H_frame

\* lines 35-36 and 39, 101-116: nothing saved: return the first map; else read
\* the stored taxon nodes and batch the new ones
save_taxons_read ==
    /\ pcH = "save_organisms" /\ hv.batches = <<>>
    /\ IF hv.saved_taxids = <<>>
       THEN HReturn(hv.input, hv.lineages, "nothing_saved")
       ELSE LET successfully_saved_organisms ==
                    SelectSeq(hv.organisms_to_process,
                              LAMBDA o : o.taxid \in Range(hv.saved_taxids))
            IN  /\ hv' = [hv EXCEPT !.batches =
                            create_batches(taxons_to_save(successfully_saved_organisms, taxons),
                                           BatchSize)]
                /\ pcH' = "save_taxons" /\ last' = "H_step"
                /\ UNCHANGED h_ret
    /\ UNCHANGED <<organisms, taxons, sched>>
    /\ H_frame

\* lines 118-122: insert one batch of taxon nodes
save_taxons_insert ==
    /\ pcH = "save_taxons" /\ hv.batches # <<>>
    /\ LET taxids_in_batch == Head(hv.batches)
           r == InsertOrdered(taxons, taxids_in_batch,
                              [i \in DOMAIN taxids_in_batch |-> NewTaxonNode])
       IN  /\ taxons' = r.store
           /\ IF r.ok
              THEN /\ hv' = [hv EXCEPT !.batches = Tail(@)]
                   /\ pcH' = "save_taxons"
              ELSE /\ hv' = [hv EXCEPT !.taxids_in_batch = taxids_in_batch,
                                       !.batches = Tail(@)]
                   /\ pcH' = "taxons_rollback"
    /\ last' = "H_step"
    /\ UNCHANGED <<organisms, h_ret, sched>>
    /\ H_frame

\* line 125: the delete of the batch's taxon nodes after a failed insert
save_taxons_rollback_taxons ==
    /\ pcH = "taxons_rollback"
    /\ taxons' = Remove(taxons, Range(hv.taxids_in_batch))
    /\ pcH' = "taxons_rollback_organisms" /\ last' = "H_step"
    /\ UNCHANGED <<organisms, hv, h_ret, sched>>
    /\ H_frame

\* line 126: the delete of the organisms whose lineage holds a taxid of the batch
save_taxons_rollback_organisms ==
    /\ pcH = "taxons_rollback_organisms"
    /\ organisms' = Remove(organisms, OrganismsOfLineage(organisms, hv.taxids_in_batch))
    /\ hv' = [hv EXCEPT !.taxids_in_batch = <<>>]
    /\ pcH' = "save_taxons" /\ last' = "H_step"
    /\ UNCHANGED <<taxons, h_ret, sched>>
    /\ H_frame

\* lines 45-46: read the saved organisms whose hierarchy is to be patched
hierarchy_read ==
    /\ pcH = "save_taxons" /\ hv.batches = <<>>
    /\ \E order \in Perms(Range(hv.saved_taxids) \cap DOMAIN organisms) :
          hv' = [hv EXCEPT !.queue = [i \in DOMAIN order |-> organisms[order[i]].taxon_lineage]]
    /\ pcH' = "hierarchy" /\ last' = "H_step"
    /\ UNCHANGED <<organisms, taxons, h_ret, sched>>
    /\ H_frame

\* line 47: get_ordered_taxons for the next organism
hierarchy_ordered ==
    /\ pcH = "hierarchy" /\ hv.queue # <<>> /\ hv.pairs = <<>>
    /\ hv' = [hv EXCEPT !.queue = Tail(@),
                        !.pairs = HierarchyPairs(get_ordered_taxons(Head(hv.queue), taxons))]
    /\ last' = "H_step"
    /\ UNCHANGED <<organisms, taxons, pcH, h_ret, sched>>
    /\ H_frame

\* line 149: one add_to_set of update_taxon_hierarchy
hierarchy_patch ==
    /\ pcH = "hierarchy" /\ hv.pairs # <<>>
    /\ taxons' = AddChild(taxons, Head(hv.pairs)[2], Head(hv.pairs)[1])
    /\ hv' = [hv EXCEPT !.pairs = Tail(@)]
    /\ last' = "H_step"
    /\ UNCHANGED <<organisms, pcH, h_ret, sched>>
    /\ H_frame

\* lines 51-52: the second read of the organisms, returned
handle_taxonomy_return ==
    /\ pcH = "hierarchy" /\ hv.queue = <<>> /\ hv.pairs = <<>>
    /\ HReturn(hv.input, get_existing_lineages_dict(hv.input), "full")
    /\ UNCHANGED <<organisms, taxons, sched>>
    /\ H_frame

handle_taxonomy_step ==
    \/ handle_taxonomy_fetch
    \/ save_organisms_insert
    \/ save_organisms_rollback
    \/ save_taxons_read
    \/ save_taxons_insert
    \/ hierarchy_read
    \/ hierarchy_ordered
    \/ hierarchy_patch
    \/ handle_taxonomy_return

\* the deletes after a rejected insert of taxon nodes: the insert is rejected
\* only when another job inserted one of the taxids after line 102 read them
save_taxons_rollback == save_taxons_rollback_taxons \/ save_taxons_rollback_organisms

----------------------------------------------------------------------------
(* update_db_stats *)

\* mutant: the group counts distinct lineages instead of documents
UnwindCount_distinct(store, t) ==
    Cardinality({l \in {store[k].taxon_lineage : k \in DOMAIN store} : t \in Range(l)})

\* {"$unwind": "$taxon_lineage"}, {"$group": ..., "count": {"$sum": 1}}: the
\* count of taxid t, one per occurrence in a lineage
UnwindCount(store, t) ==
    SumOver([k \in DOMAIN store |-> Occurrences(store[k].taxon_lineage, t)], DOMAIN store)

\* objects(taxon_lineage__in=[t]).count(): the documents whose lineage holds t
LineageCount(store, t) ==
    Cardinality({k \in DOMAIN store : t \in Range(store[k].taxon_lineage)})

\* mutant: the orphan query selects the assemblies that have annotations
update_assemblies_counts_inverted(asm, ann) ==
    Restrict(asm, {b \in DOMAIN asm : \A a \in DOMAIN ann : ann[a].assembly_accession # b})

\* update_assemblies_counts: the assemblies left, those without annotation deleted
update_assemblies_counts(asm, ann) ==
    Restrict(asm, {b \in DOMAIN asm : \E a \in DOMAIN ann : ann[a].assembly_accession = b})

\* update_organisms_counts: the organisms left, those without annotation deleted
update_organisms_counts(org, ann) ==
    Restrict(org, {t \in DOMAIN org : \E a \in DOMAIN ann : ann[a].taxid = t})

\* update_taxon_nodes_counts, lines 67-90: the three counters of every node
CountedNodes(tx, org, asm, ann) ==
    [t \in DOMAIN tx |->
        [tx[t] EXCEPT !.annotations_count = UnwindCount(ann, t),
                      !.assemblies_count = UnwindCount(asm, t),
                      !.organisms_count = UnwindCount(org, t)]]

\* line 92: TaxonNode.objects(annotations_count=0)
NodesToDelete(tx) == {t \in DOMAIN tx : tx[t].annotations_count = 0}

\* mutant: the nodes are deleted and the children lists left as they are
PruneNodes_nopull(tx, taxids_to_delete) == Remove(tx, taxids_to_delete)

\* lines 98-103: delete the nodes, then pull their taxids from every children list
PruneNodes(tx, taxids_to_delete) ==
    LET left == Remove(tx, taxids_to_delete) IN
    [t \in DOMAIN left |-> [left[t] EXCEPT !.children = @ \ taxids_to_delete]]

S_frame == /\ fresh' = FALSE
           /\ H_unch /\ R_unch /\ U_unch /\ P_unch

stats_assemblies(conc) ==
    /\ pcS = "idle" /\ Start(conc)
    /\ assemblies' = update_assemblies_counts(assemblies, annotations)
    /\ dropped' = dropped \cup UNION {Range(assemblies[b].taxon_lineage) :
                                         b \in DOMAIN assemblies \ DOMAIN assemblies'}
    /\ pcS' = "organisms" /\ sv' = NoLocals
    /\ last' = "S_step" /\ fresh' = FALSE
    /\ UNCHANGED <<organisms, taxons, annotations, aux>>
    /\ H_unch /\ R_unch /\ U_unch

stats_organisms ==
    /\ pcS = "organisms"
    /\ organisms' = update_organisms_counts(organisms, annotations)
    /\ pcS' = "taxon_nodes" /\ last' = "S_step"
    /\ UNCHANGED <<taxons, assemblies, annotations, sv, sched>>
    /\ S_frame

stats_taxon_nodes ==
    /\ pcS = "taxon_nodes"
    /\ LET counted == CountedNodes(taxons, organisms, assemblies, annotations)
           taxids_to_delete == NodesToDelete(counted)
       IN  /\ taxons' = PruneNodes(counted, taxids_to_delete)
           /\ sv' = [deleted |-> taxids_to_delete]
    /\ pcS' = "bioprojects" /\ last' = "S_taxon_nodes"
    /\ UNCHANGED <<organisms, assemblies, annotations, sched>>
    /\ S_frame

\* update_bioprojects_counts touches no modelled store; update_db_stats returns
stats_done ==
    /\ pcS = "bioprojects"
    /\ pcS' = "idle" /\ sv' = NoLocals /\ last' = "S_done"
    /\ UNCHANGED <<organisms, taxons, assemblies, annotations, sched>>
    /\ S_frame

stats_step == stats_organisms \/ stats_taxon_nodes \/ stats_done

----------------------------------------------------------------------------
(* update_taxonomy *)

\* objects(taxid=t).update(taxon_lineage=lineage) on a leaf collection
RewriteLineage(store, t, lineage) ==
    [k \in DOMAIN store |->
        IF store[k].taxid = t THEN [store[k] EXCEPT !.taxon_lineage = lineage] ELSE store[k]]

\* lines 210-215: the counters of a node just inserted
WithCounts(tx, t, org, asm, ann) ==
    IF t \in DOMAIN tx
    THEN [tx EXCEPT ![t].assemblies_count = LineageCount(asm, t),
                    ![t].annotations_count = LineageCount(ann, t),
                    ![t].organisms_count = LineageCount(org, t)]
    ELSE tx

RECURSIVE CountNewTaxons(_, _, _, _, _)
CountNewTaxons(tx, new, org, asm, ann) ==
    IF new = <<>> THEN tx
    ELSE CountNewTaxons(WithCounts(tx, Head(new), org, asm, ann), Tail(new), org, asm, ann)

U_frame == /\ fresh' = FALSE
           /\ H_unch /\ R_unch /\ S_unch /\ P_unch

\* lines 176-177: read the organisms' taxids, fetch and parse them all
update_taxonomy_start(conc) ==
    /\ pcU = "idle" /\ Start(conc)
    /\ \E organisms_taxids \in Perms(DOMAIN organisms) :
         \E fetched \in fetch_new_organisms(organisms_taxids, BatchSize) :
            uv' = [queue |-> fetched, new_taxons |-> {}]
    /\ pcU' = "organism" /\ last' = "U_step"
    /\ UNCHANGED <<organisms, taxons, assemblies, annotations>>
    /\ U_frame

\* lines 186-199: rewrite the lineage of the organism and of its leaf records,
\* then read which taxons of the lineage are stored; a taxid without Organism
\* makes line 187 raise
update_taxonomy_organism ==
    /\ pcU = "organism" /\ uv.queue # <<>>
    /\ LET organism == Head(uv.queue) IN
       IF organism.taxid \notin DOMAIN organisms
       THEN /\ pcU' = "idle" /\ last' = "U_raised_no_organism"
            /\ uv' = [unprocessed |-> Len(uv.queue)]
            /\ UNCHANGED <<organisms, assemblies, annotations>>
       ELSE /\ organisms' = [organisms EXCEPT ![organism.taxid].taxon_lineage =
                                                  organism.taxon_lineage]
            /\ assemblies' = RewriteLineage(assemblies, organism.taxid, organism.taxon_lineage)
            /\ annotations' = RewriteLineage(annotations, organism.taxid, organism.taxon_lineage)
            /\ uv' = [uv EXCEPT !.new_taxons = Range(organism.taxon_lineage) \ DOMAIN taxons]
            /\ pcU' = "taxons" /\ last' = "U_step"
    /\ UNCHANGED <<taxons, sched>>
    /\ U_frame

\* lines 200-225: insert the new taxons (a failed insert is raised again), count
\* them, and patch the hierarchy of the lineage
update_taxonomy_taxons ==
    /\ pcU = "taxons"
    /\ LET organism == Head(uv.queue)
           new == SelectSeq(TaxidsOf(organism.parsed_taxon_lineage),
                            LAMBDA t : t \in uv.new_taxons)
           r == InsertOrdered(taxons, new, [i \in DOMAIN new |-> NewTaxonNode])
       IN  IF ~r.ok
           THEN /\ taxons' = r.store
                /\ pcU' = "idle" /\ last' = "U_raised_insert"
                /\ uv' = [unprocessed |-> Len(uv.queue) - 1]
           ELSE /\ taxons' = ApplyPairs(
                                CountNewTaxons(r.store, new, organisms, assemblies, annotations),
                                HierarchyPairs(get_ordered_taxons(organism.taxon_lineage, r.store)))
                /\ uv' = [uv EXCEPT !.queue = Tail(@), !.new_taxons = {}]
                /\ pcU' = "organism" /\ last' = "U_step"
    /\ UNCHANGED <<organisms, assemblies, annotations, sched>>
    /\ U_frame

\* the loop of line 179 is over: the task returns
update_taxonomy_done ==
    /\ pcU = "organism" /\ uv.queue = <<>>
    /\ pcU' = "idle" /\ uv' = NoLocals /\ last' = "U_done"
    /\ UNCHANGED <<organisms, taxons, assemblies, annotations, sched>>
    /\ U_frame

update_taxonomy_step ==
    update_taxonomy_organism \/ update_taxonomy_taxons \/ update_taxonomy_done

----------------------------------------------------------------------------
(* The jobs run one at a time; leaf records change between jobs *)

LeafChange ==
    \/ \E b \in AsmIds, t \in Species : AddAssembly(b, t)
    \/ \E a \in AnnIds, b \in AsmIds : AddAnnotation(a, b)
    \/ \E a \in AnnIds : DeleteAnnotation(a)
    \/ \E b \in AsmIds : DeleteAssembly(b)

Next ==
    \/ \E input \in SUBSET Species \ {{}} : handle_taxonomy_start({}, input)
    \/ handle_taxonomy_step
    \/ rebuild_read_assemblies({})
    \/ rebuild_step
    \/ stats_assemblies({})
    \/ stats_step
    \/ update_taxonomy_start({})
    \/ update_taxonomy_step
    \/ LeafChange

Spec == Init /\ [][Next]_vars

----------------------------------------------------------------------------
(* What the stores imply *)

LeafLineages ==
    {assemblies[b].taxon_lineage : b \in DOMAIN assemblies}
    \cup {annotations[a].taxon_lineage : a \in DOMAIN annotations}

StoredLineages == LeafLineages \cup {organisms[t].taxon_lineage : t \in DOMAIN organisms}

\* some lineage of `lineages` holds c immediately followed by p
Follows(lineages, c, p) ==
    \E l \in lineages : \E i \in 1..(Len(l) - 1) : l[i] = c /\ l[i + 1] = p

References(lineages, t) == \E l \in lineages : t \in Range(l)

\* a rebuild has just returned
Rebuilt == last = "R_done"

----------------------------------------------------------------------------
(* C1 *)

\* C1 as stated: after a rebuild, for every leaf record and every consecutive
\* pair (c, p) of its lineage, TaxonNode p exists and holds c in its children
C1_Completeness ==
    Rebuilt =>
        \A l \in LeafLineages : \A i \in 1..(Len(l) - 1) :
            l[i + 1] \in DOMAIN taxons /\ l[i] \in taxons[l[i + 1]].children

\* C1 amended: after a rebuild, for every leaf record and every consecutive pair
\* (c, p) of its lineage for which a TaxonNode p is in the store, c is in the
\* children of that node (the rebuild updates nodes, it never creates one)
C1_CompletenessOfStoredNodes ==
    Rebuilt =>
        \A l \in LeafLineages : \A i \in 1..(Len(l) - 1) :
            l[i + 1] \in DOMAIN taxons => l[i] \in taxons[l[i + 1]].children

\* a rebuild that changed some children returned, and a leaf lineage of three
\* taxids has both its parents stored
C1_Witness ==
    /\ Rebuilt /\ rv.changed
    /\ \E l \in LeafLineages : Len(l) = 3 /\ l[2] \in DOMAIN taxons /\ l[3] \in DOMAIN taxons

----------------------------------------------------------------------------
(* C2 *)

\* C2 as stated: after a rebuild every child c of every TaxonNode p follows from
\* a leaf record (assembly or annotation) whose lineage holds c right before p
C2_NoOrphanEdges ==
    Rebuilt =>
        \A p \in DOMAIN taxons : \A c \in taxons[p].children : Follows(LeafLineages, c, p)

\* C2 amended: after a rebuild every child c of every TaxonNode p follows from an
\* assembly, annotation or organism record whose lineage holds c right before p,
\* whatever the children were before
C2_NoOrphanEdgesOfStoredLineages ==
    Rebuilt =>
        \A p \in DOMAIN taxons : \A c \in taxons[p].children : Follows(StoredLineages, c, p)

\* a rebuild that changed some children returned and left a node with children
\* and a node without
C2_Witness ==
    /\ Rebuilt /\ rv.changed
    /\ \E p \in DOMAIN taxons : taxons[p].children # {}
    /\ \E p \in DOMAIN taxons : taxons[p].children = {} /\ p \notin Species

----------------------------------------------------------------------------
(* C3 *)

\* C3: a rebuild started right after a rebuild returned, nothing having run in
\* between, changes no TaxonNode in any of its steps
C3_RebuildIdempotent ==
    [][(pcR # "idle" /\ rv.repeat /\ rv' # rv) => taxons' = taxons]_vars

\* a second rebuild in succession returned, over a tree that has edges
C3_Witness ==
    /\ Rebuilt /\ rv.repeated
    /\ \E p \in DOMAIN taxons : taxons[p].children # {}

----------------------------------------------------------------------------
(* C4 *)

\* update_taxon_nodes_counts has just returned
Counted == last = "S_taxon_nodes"

\* C4: after update_taxon_nodes_counts no TaxonNode has annotations_count 0 and no
\* node's children holds the taxid of a node the pass deleted
C4_OrphanPruning ==
    Counted =>
        \A t \in DOMAIN taxons :
            /\ taxons[t].annotations_count # 0
            /\ taxons[t].children \cap sv.deleted = {}

\* the pass deleted species 2 and kept genus 3, whose children held 1 and 2
C4_Witness ==
    /\ Counted /\ sv.deleted = {2}
    /\ 3 \in DOMAIN taxons /\ taxons[3].children = {1}

----------------------------------------------------------------------------
(* C5 *)

\* C5 as stated: once every leaf record that referenced a taxid is deleted and
\* the rebuild has run, no TaxonNode with that taxid is left and no children holds it
C5_LineageOrigin ==
    Rebuilt =>
        \A t \in dropped :
            ~References(LeafLineages, t) =>
                /\ t \notin DOMAIN taxons
                /\ \A p \in DOMAIN taxons : t \notin taxons[p].children

\* C5 amended: once every leaf record and every Organism that referenced a taxid
\* is deleted (or its lineage rewritten) and the rebuild has run, no node's
\* children holds the taxid; the TaxonNode itself is not removed by the rebuild
C5_NoEdgeToUnreferenced ==
    Rebuilt =>
        \A t \in dropped :
            ~References(StoredLineages, t) =>
                \A p \in DOMAIN taxons : t \notin taxons[p].children

\* after the rebuild a taxid whose leaf records were deleted, referenced by no
\* stored lineage, still has its TaxonNode, and the rebuild changed some children
C5_Witness ==
    /\ Rebuilt /\ rv.changed
    /\ \E t \in dropped : ~References(StoredLineages, t) /\ t \in DOMAIN taxons

----------------------------------------------------------------------------
(* C7 *)

\* handle_taxonomy has just returned
Returned == last = "H_ret"

\* C7: the returned map has as keys exactly the input taxids with an Organism in
\* the store at the return, each with the stored lineage
C7_ReturnedMap ==
    Returned => h_ret.lineages = get_existing_lineages_dict(h_ret.input)

----------------------------------------------------------------------------
(* C8 *)

\* C8: after update_taxon_nodes_counts the three counters of every remaining node
\* are the numbers of annotations, assemblies and organisms whose lineage holds it
C8_RollupCounts ==
    Counted =>
        \A t \in DOMAIN taxons :
            /\ taxons[t].annotations_count = LineageCount(annotations, t)
            /\ taxons[t].assemblies_count = LineageCount(assemblies, t)
            /\ taxons[t].organisms_count = LineageCount(organisms, t)

\* a node counted two annotations, one assembly and one organism
C8_Witness ==
    /\ Counted
    /\ \E t \in DOMAIN taxons :
          /\ taxons[t].annotations_count = 2
          /\ taxons[t].assemblies_count = 1
          /\ taxons[t].organisms_count = 1

----------------------------------------------------------------------------
(* The rebuild beside handle_taxonomy *)

NextRace ==
    \/ /\ ops < MaxRaceOps
       /\ \/ \E input \in SUBSET Species \ {{}} : handle_taxonomy_start({"R"}, input)
          \/ rebuild_read_assemblies({"H"})
          \/ stats_assemblies({})
          \/ update_taxonomy_start({})
          \/ LeafChange
    \/ handle_taxonomy_step
    \/ rebuild_step
    \/ stats_step
    \/ update_taxonomy_step

SpecRace == Init /\ [][NextRace]_vars

\* every stored node holds exactly the children the stored lineages imply
ExactChildren ==
    \A p \in DOMAIN taxons :
        taxons[p].children = {c \in TaxIds : Follows(StoredLineages, c, p)}

\* C6: once a rebuild and handle_taxonomy have run interleaved, a rebuild that
\* runs alone leaves every stored node with exactly the children the stored
\* lineages imply
C6_RebuildAfterRace == (Rebuilt /\ ~overlap /\ raced) => ExactChildren

\* a rebuild alone, after a race, had children to correct
C6_Witness == Rebuilt /\ ~overlap /\ raced /\ rv.changed

----------------------------------------------------------------------------
(* handle_taxonomy beside update_taxonomy *)

NextIngest ==
    \/ /\ ops < MaxIngestOps
       /\ \E input \in SUBSET Species \ {{}} : handle_taxonomy_start({"U"}, input)
    \/ handle_taxonomy_step
    \/ save_taxons_rollback
    \/ ops < MaxIngestOps /\ update_taxonomy_start({"H"})
    \/ update_taxonomy_step

SpecIngest == Init /\ [][NextIngest]_vars

\* C9: no ingestion pass is ended by a rejected insert: the conflict is dropped
\* and the remaining organisms of the pass are processed
C9_NeverFatal == last # "U_raised_insert"

----------------------------------------------------------------------------
(* The parser on drawn payloads *)

\* the ancestor elements drawn: kept with and without rank, without identifier,
\* named "root" with and without identifier
ElemOptions ==
    {Elem(3, "genus3", "genus"), Elem(4, "family4", ""), Elem(NoId, "genus3", "genus"),
     Elem(RootId, "root", ""), Elem(NoId, "root", "")}

SeqsUpTo(S, n) == UNION {[1..k -> S] : k \in 0..n}

RawRecords ==
    {[taxId |-> t, scientificName |-> "sp1", lineage |-> l] :
        t \in {NoId, 1}, l \in SeqsUpTo(ElemOptions, MaxAncestors)}

RawPayloads == SeqsUpTo(RawRecords, MaxRecords)

ParserInit ==
    /\ organisms = Empty /\ taxons = Empty /\ assemblies = Empty /\ annotations = Empty
    /\ pcH = "idle" /\ hv = NoLocals
    /\ pcR = "idle" /\ rv = NoLocals
    /\ pcS = "idle" /\ sv = NoLocals
    /\ pcU = "idle" /\ uv = NoLocals
    /\ h_ret = [input |-> {}, lineages |-> Empty, path |-> "none"]
    /\ last = "payload"
    /\ fresh = FALSE
    /\ ops = 0 /\ overlap = FALSE /\ raced = FALSE
    /\ dropped = {}
    /\ raw \in RawPayloads /\ parsed = <<>>
    /\ fv = NoLocals
    /\ values = <<>> /\ dist = NoLocals
    /\ gene_counts = Empty /\ stats = Empty
    /\ walk = NoLocals

Parser_frame ==
    UNCHANGED <<organisms, taxons, assemblies, annotations, pcH, hv, pcR, rv, pcS, sv,
                pcU, uv, h_ret, fresh, ops, overlap, raced, dropped,
                fv, values, dist, gene_counts, stats, walk>>

parse_payload ==
    /\ last = "payload"
    /\ parsed' = parse_taxons_and_organisms_from_ena_browser(raw)
    /\ last' = "parsed"
    /\ UNCHANGED raw
    /\ Parser_frame

ParserNext == parse_payload

SpecParser == ParserInit /\ [][ParserNext]_vars

\* the records of the payload that carry a taxId, in order: one per organism
OrganismRecords == SelectSeq(raw, LAMBDA rec : rec.taxId # NoId)

\* C10: of every parsed organism, the lineage and the candidates hold one entry
\* for the organism and one per ancestor element that has an identifier and is
\* not named "root"; no entry has a missing identifier and no ancestor
\* candidate is named "root"
C10_ParserSkipRule ==
    last = "parsed" =>
        /\ Len(parsed) = Len(OrganismRecords)
        /\ \A k \in DOMAIN parsed :
            LET o == parsed[k]
                anc == OrganismRecords[k].lineage
                keep == {i \in DOMAIN anc : anc[i].taxId # NoId /\ anc[i].scientificName # "root"}
            IN  /\ Len(o.taxon_lineage) = 1 + Cardinality(keep)
                /\ Len(o.parsed_taxon_lineage) = 1 + Cardinality(keep)
                /\ NoId \notin Range(o.taxon_lineage)
                /\ \A j \in 2..Len(o.parsed_taxon_lineage) :
                      /\ o.parsed_taxon_lineage[j].taxid # NoId
                      /\ o.parsed_taxon_lineage[j].scientific_name # "root"
                /\ \A i \in DOMAIN anc \ keep :
                      anc[i].taxId \in Range(Tail(o.taxon_lineage))
                          => \E j \in keep : anc[j].taxId = anc[i].taxId

\* an organism was parsed from a record of two ancestor elements, one of them
\* named "root" and carrying an identifier: the lineage holds the organism and
\* the other ancestor only
C10_Witness ==
    /\ last = "parsed" /\ Len(parsed) = 1
    /\ Len(raw[1].lineage) = 2
    /\ \E i \in DOMAIN raw[1].lineage : raw[1].lineage[i] = Elem(RootId, "root", "")
    /\ Len(parsed[1].taxon_lineage) = 2

----------------------------------------------------------------------------
(* fetch_new_organisms on its own, on payloads that may hold unreadable records *)

\* identifiers asked for in one run of fetch_new_organisms
MaxFetchIds == 3
\* batch_size of the run, scaled down
FetchBatchSize == 2

FetchIds == 1..MaxFetchIds

\* a well-formed record of identifier t
RecordOf(t) == [taxId |-> t, scientificName |-> "sp",
                lineage |-> <<Elem(4, "family4", "family"), Elem(RootId, "root", "")>>]

\* a record that is not well-formed XML
Malformed == [taxId |-> NoId, scientificName |-> "", lineage |-> <<>>, malformed |-> TRUE]

IsMalformed(rec) == "malformed" \in DOMAIN rec

\* etree.iterparse raises XMLSyntaxError when it reaches an element that is not
\* well-formed; the function has no handler, so nothing it parsed is returned
ParseRaises(payload) == \E i \in DOMAIN payload : IsMalformed(payload[i])

\* the payloads a successful fetch of `batch` may have written: per identifier
\* its record, nothing, or an unreadable record
FetchPayloads(batch) ==
    {Flatten([i \in DOMAIN batch |-> IF a[i] = NoRecord THEN <<>> ELSE <<a[i]>>]) :
        a \in {f \in [DOMAIN batch -> {RecordOf(t) : t \in FetchIds} \cup {NoRecord, Malformed}] :
                 \A i \in DOMAIN batch : f[i] \in {RecordOf(batch[i]), NoRecord, Malformed}}}

\* the lists of identifiers of a run: each identifier at most once
FetchLists == UNION {Perms(S) : S \in SUBSET FetchIds \ {{}}}

\* mutant: only a fetch reported as failed is skipped
SkipBatch_failedonly(result) == result = "failed"

\* line 64: not fetch_success, or the file is missing or has size 0
SkipBatch(result) == result \in {"failed", "empty"}

FetchInit ==
    /\ organisms = Empty /\ taxons = Empty /\ assemblies = Empty /\ annotations = Empty
    /\ pcH = "idle" /\ hv = NoLocals
    /\ pcR = "idle" /\ rv = NoLocals
    /\ pcS = "idle" /\ sv = NoLocals
    /\ pcU = "idle" /\ uv = NoLocals
    /\ h_ret = [input |-> {}, lineages |-> Empty, path |-> "none"]
    /\ last = "fetch"
    /\ fresh = FALSE
    /\ ops = 0 /\ overlap = FALSE /\ raced = FALSE
    /\ dropped = {}
    /\ raw = <<>> /\ parsed = <<>>
    /\ \E taxids \in FetchLists :
          fv = [pc |-> "loop", taxids |-> taxids,
                batches |-> create_batches(taxids, FetchBatchSize),
                organisms_to_process |-> <<>>, log |-> <<>>]
    /\ values = <<>> /\ dist = NoLocals
    /\ gene_counts = Empty /\ stats = Empty
    /\ walk = NoLocals

Fetch_frame ==
    UNCHANGED <<organisms, taxons, assemblies, annotations, pcH, hv, pcR, rv, pcS, sv,
                pcU, uv, h_ret, last, fresh, ops, overlap, raced, dropped, raw, parsed,
                values, dist, gene_counts, stats, walk>>

\* lines 60-70: one turn of the loop: fetch the batch; skip it, or parse the file
fetch_batch ==
    /\ fv.pc = "loop" /\ fv.batches # <<>>
    /\ LET batch == Head(fv.batches) IN
       \E result \in {"failed", "empty", "written"} :
       \E payload \in (IF result = "written" THEN FetchPayloads(batch) ELSE {<<>>}) :
          LET entry == [batch |-> batch, result |-> result, payload |-> payload] IN
          IF SkipBatch(result)
          THEN fv' = [fv EXCEPT !.batches = Tail(@), !.log = Append(@, entry)]
          ELSE IF result = "empty" \/ ParseRaises(payload)
          THEN fv' = [fv EXCEPT !.pc = "raised", !.batches = Tail(@),
                                !.log = Append(@, entry)]
          ELSE fv' = [fv EXCEPT !.batches = Tail(@), !.log = Append(@, entry),
                                !.organisms_to_process =
                                    @ \o parse_taxons_and_organisms_from_ena_browser(payload)]
    /\ Fetch_frame

\* line 76: the loop is over, the list is returned
fetch_return ==
    /\ fv.pc = "loop" /\ fv.batches = <<>>
    /\ fv' = [fv EXCEPT !.pc = "returned"]
    /\ Fetch_frame

FetchNext == fetch_batch \/ fetch_return

SpecFetch == FetchInit /\ [][FetchNext]_vars

\* the run is over: the list was returned or an exception left the function
FetchOver == fv.pc \in {"returned", "raised"}

\* the organisms the parser yields for the payloads of the log, in order
RECURSIVE ParsedOf(_)
ParsedOf(log) ==
    IF log = <<>> THEN <<>>
    ELSE (IF Head(log).result = "written" /\ ~ParseRaises(Head(log).payload)
          THEN parse_taxons_and_organisms_from_ena_browser(Head(log).payload)
          ELSE <<>>) \o ParsedOf(Tail(log))

\* C11: once the run is over, every well-formed record of every payload fetched
\* has its organism in the list handed on, also where the payload held an
\* unreadable record
C11_RecordIsolation ==
    FetchOver =>
        \A i \in DOMAIN fv.log : \A j \in DOMAIN fv.log[i].payload :
            LET rec == fv.log[i].payload[j] IN
            (~IsMalformed(rec) /\ rec.taxId # NoId) =>
                /\ fv.pc = "returned"
                /\ \E k \in DOMAIN fv.organisms_to_process :
                      fv.organisms_to_process[k].taxid = rec.taxId

\* C20: in a run of fetch_new_organisms no batch is fetched twice, a batch whose
\* fetch failed or wrote nothing adds no organism, and the loop goes on to the
\* next batch after it: the run never ends on a skipped batch that has a successor
C20_FetchStep ==
    LET all == create_batches(fv.taxids, FetchBatchSize) IN
    fv # NoLocals =>
        /\ Len(fv.log) <= Len(all)
        /\ \A i \in DOMAIN fv.log :
              /\ fv.log[i].batch = all[i]
              /\ \A k \in DOMAIN fv.log : fv.log[k].batch = fv.log[i].batch => k = i
              /\ (fv.log[i].result \in {"failed", "empty"} /\ i < Len(all) /\ FetchOver)
                    => Len(fv.log) > i
        /\ fv.pc = "returned" =>
              /\ Len(fv.log) = Len(all)
              /\ fv.organisms_to_process = ParsedOf(fv.log)
        /\ fv.pc = "loop" => fv.organisms_to_process = ParsedOf(fv.log)

\* a run returned whose first batch failed and whose second batch was parsed
\* into an organism
C20_Witness ==
    /\ fv # NoLocals /\ fv.pc = "returned" /\ Len(fv.log) = 2
    /\ fv.log[1].result = "failed" /\ fv.log[2].result = "written"
    /\ Len(fv.organisms_to_process) = 1

----------------------------------------------------------------------------
(* compute_distribution_stats on drawn samples *)
(* mean, median and std are kept in hundredths: 816 stands for 8.16          *)

\* values of a sample
MaxSample == 3

SampleValues == {1, 10, 20, 30, 34, 156}

Samples == SeqsUpTo(SampleValues, MaxSample)

RECURSIVE Sum(_)
Sum(s) == IF s = <<>> THEN 0 ELSE Head(s) + Sum(Tail(s))

\* round(p / q) for p >= 0, q > 0: to the nearest integer, a tie to the even one
RoundDiv(p, q) ==
    LET f == p \div q
        twice == 2 * (p % q)
    IN  IF twice < q THEN f
        ELSE IF twice > q THEN f + 1
        ELSE IF f % 2 = 0 THEN f ELSE f + 1

\* the largest s in lo..hi with s * s <= q, given lo * lo <= q
RECURSIVE IsqrtIn(_, _, _)
IsqrtIn(q, lo, hi) ==
    IF lo = hi THEN lo
    ELSE LET mid == (lo + hi + 1) \div 2 IN
         IF mid * mid <= q THEN IsqrtIn(q, mid, hi) ELSE IsqrtIn(q, lo, mid - 1)

\* floor of the square root of q
Isqrt(q) == IsqrtIn(q, 0, 46340)

\* round(math.sqrt(p / q)) for p >= 0, q > 0
RoundSqrt(p, q) == (Isqrt((4 * p) \div q) + 1) \div 2

\* mutant: the even case takes the upper middle element
Median_upper(sorted_vals) == 100 * sorted_vals[Len(sorted_vals) \div 2 + 1]

\* lines 156-160: the median of the sorted sample, in hundredths
Median(sorted_vals) ==
    LET n == Len(sorted_vals) IN
    IF n % 2 = 1 THEN 100 * sorted_vals[n \div 2 + 1]
    ELSE RoundDiv(100 * (sorted_vals[n \div 2] + sorted_vals[n \div 2 + 1]), 2)

\* lines 163-164: the deviations are taken from the rounded mean
StdAround(vals, mean) ==
    RoundSqrt(Sum([i \in DOMAIN vals |-> (100 * vals[i] - mean) * (100 * vals[i] - mean)]),
              Len(vals))

ZeroStats == [mean |-> 0, median |-> 0, std |-> 0, min |-> 0, max |-> 0, n |-> 0]

compute_distribution_stats(vals) ==
    LET n == Len(vals) IN
    IF n = 0 THEN ZeroStats
    ELSE LET mean == RoundDiv(100 * Sum(vals), n)
             sorted_vals == SortSeq(vals, LAMBDA a, b : a < b)
         IN  [mean |-> mean,
              median |-> Median(sorted_vals),
              std |-> StdAround(vals, mean),
              min |-> CHOOSE v \in Range(vals) : \A w \in Range(vals) : v <= w,
              max |-> CHOOSE v \in Range(vals) : \A w \in Range(vals) : v >= w,
              n |-> n]

DistInit ==
    /\ organisms = Empty /\ taxons = Empty /\ assemblies = Empty /\ annotations = Empty
    /\ pcH = "idle" /\ hv = NoLocals
    /\ pcR = "idle" /\ rv = NoLocals
    /\ pcS = "idle" /\ sv = NoLocals
    /\ pcU = "idle" /\ uv = NoLocals
    /\ h_ret = [input |-> {}, lineages |-> Empty, path |-> "none"]
    /\ last = "sample"
    /\ fresh = FALSE
    /\ ops = 0 /\ overlap = FALSE /\ raced = FALSE
    /\ dropped = {}
    /\ raw = <<>> /\ parsed = <<>>
    /\ fv = NoLocals
    /\ values \in Samples /\ dist = NoLocals
    /\ gene_counts = Empty /\ stats = Empty
    /\ walk = NoLocals

distribution_stats ==
    /\ last = "sample"
    /\ dist' = compute_distribution_stats(values)
    /\ last' = "distribution"
    /\ UNCHANGED <<organisms, taxons, assemblies, annotations, pcH, hv, pcR, rv, pcS, sv,
                   pcU, uv, h_ret, fresh, ops, overlap, raced, dropped, raw, parsed,
                   fv, values, gene_counts, stats, walk>>

DistNext == distribution_stats

SpecDist == DistInit /\ [][DistNext]_vars

\* the statistics of a sample that is not empty have been computed
Computed == last = "distribution" /\ values # <<>>

\* the k-th smallest value of the sample
Kth(k) ==
    CHOOSE v \in Range(values) :
        /\ Cardinality({i \in DOMAIN values : values[i] < v}) < k
        /\ k <= Cardinality({i \in DOMAIN values : values[i] <= v})

\* C12: of a sample that is not empty, n is its size, min and max its smallest
\* and largest value, and the median its middle value (n odd) or the mean of
\* its two middle values (n even)
C12_SizeExtremesMedian ==
    Computed =>
        LET n == Len(values) IN
        /\ dist.n = n
        /\ dist.min = Kth(1) /\ dist.max = Kth(n)
        /\ n % 2 = 1 => dist.median = 100 * Kth((n + 1) \div 2)
        /\ n % 2 = 0 => 2 * dist.median = 100 * (Kth(n \div 2) + Kth(n \div 2 + 1))

\* the statistics of a sample of two different values
C12_Witness ==
    /\ Computed /\ Len(values) = 2 /\ values[1] # values[2]
    /\ dist.median # 100 * values[1] /\ dist.median # 100 * values[2]

\* n * sum(x^2) - sum(x)^2: n^2 times the population variance
ScaledVariance ==
    Len(values) * Sum([i \in DOMAIN values |-> values[i] * values[i]])
        - Sum(values) * Sum(values)

\* C13: the mean is sum / n and the standard deviation the population standard
\* deviation, each rounded to 2 decimals; [10, 20, 30] gives mean 20.0, median
\* 20.0, std 8.16, min 10, max 30, n 3
C13_MeanAndStd ==
    Computed =>
        /\ dist.mean = RoundDiv(100 * Sum(values), Len(values))
        /\ dist.std = RoundSqrt(10000 * ScaledVariance, Len(values) * Len(values))
        /\ values = <<10, 20, 30>> =>
              dist = [mean |-> 2000, median |-> 2000, std |-> 816, min |-> 10,
                      max |-> 30, n |-> 3]

\* C13 holds on every sample drawn but the orderings of 1, 34, 156
C13_ExceptOneSample ==
    (Computed /\ Range(values) # {1, 34, 156}) => C13_MeanAndStd

----------------------------------------------------------------------------
(* update_taxon_gene_stats on drawn annotations *)

Categories == {"coding", "non_coding", "pseudogene"}

\* the None that category_stats.get('total_count') gives for a missing total_count
NoCount == -1

\* line 209: the truth value Python gives a total_count: None and 0 are false
Truthy(v) == v # NoCount /\ v # 0

\* features_statistics.gene_category_stats of an annotation: absent (or None), or
\* per category its total_count: missing, 0 or a positive count
GeneOptions ==
    {[present |-> FALSE, coding |-> NoCount, non_coding |-> NoCount, pseudogene |-> NoCount]}
    \cup {[present |-> TRUE, coding |-> c, non_coding |-> d, pseudogene |-> e] :
            c \in {NoCount, 0, 10, 20}, d \in {NoCount, 10}, e \in {NoCount, 0}}

\* the annotation ids in the order the aggregate yields them
AnnotationOrder == [i \in 1..MaxAnnotations |-> i]

\* mutant: every total_count is collected, a missing one and a 0 as a 0
CategoryCounts_all(ann, gc, t, cat) ==
    LET docs == SelectSeq(AnnotationOrder,
                    LAMBDA a : /\ a \in DOMAIN ann
                               /\ t \in Range(ann[a].taxon_lineage)
                               /\ gc[a].present)
    IN  [i \in DOMAIN docs |-> IF Truthy(gc[docs[i]][cat]) THEN gc[docs[i]][cat] ELSE 0]

\* lines 186-211: taxon_counts[t][cat]: the total_count of every annotation whose
\* lineage holds t and whose gene_category_stats carry one for the category
CategoryCounts(ann, gc, t, cat) ==
    LET docs == SelectSeq(AnnotationOrder,
                    LAMBDA a : /\ a \in DOMAIN ann
                               /\ t \in Range(ann[a].taxon_lineage)
                               /\ gc[a].present
                               /\ Truthy(gc[a][cat]))
    IN  [i \in DOMAIN docs |-> gc[docs[i]][cat]]

\* lines 218-231: the stats written on every taxon node
GeneStats(tx, ann, gc) ==
    [t \in DOMAIN tx |->
        [cat \in Categories |-> compute_distribution_stats(CategoryCounts(ann, gc, t, cat))]]

\* species 1 and 2 under genus 3 and family 4 are stored; the annotations drawn
\* are of species 1, with its lineage or with none
GeneInit ==
    /\ organisms = [t \in Species |-> [taxon_lineage |-> <<t, 3, 4>>]]
    /\ taxons = [t \in TaxIds |->
                    [NewTaxonNode EXCEPT !.children =
                        IF t = 4 THEN {3} ELSE IF t = 3 THEN Species ELSE {}]]
    /\ assemblies = [b \in {1} |-> [taxid |-> 1, taxon_lineage |-> <<1, 3, 4>>]]
    /\ \E A \in SUBSET AnnIds :
          /\ annotations \in [A -> {[taxid |-> 1, taxon_lineage |-> l, assembly_accession |-> 1] :
                                       l \in {<<1, 3, 4>>, <<>>}}]
          /\ gene_counts \in [A -> GeneOptions]
    /\ pcH = "idle" /\ hv = NoLocals
    /\ pcR = "idle" /\ rv = NoLocals
    /\ pcS = "idle" /\ sv = NoLocals
    /\ pcU = "idle" /\ uv = NoLocals
    /\ h_ret = [input |-> {}, lineages |-> Empty, path |-> "none"]
    /\ last = "annotations"
    /\ fresh = FALSE
    /\ ops = 0 /\ overlap = FALSE /\ raced = FALSE
    /\ dropped = {}
    /\ raw = <<>> /\ parsed = <<>>
    /\ walk = NoLocals
    /\ fv = NoLocals
    /\ values = <<>> /\ dist = NoLocals
    /\ stats = Empty

update_taxon_gene_stats ==
    /\ last = "annotations"
    /\ stats' = GeneStats(taxons, annotations, gene_counts)
    /\ last' = "gene_stats"
    /\ UNCHANGED <<organisms, taxons, assemblies, annotations, pcH, hv, pcR, rv, pcS, sv,
                   pcU, uv, h_ret, fresh, ops, overlap, raced, dropped, raw, parsed,
                   fv, values, dist, gene_counts, walk>>

GeneNext == update_taxon_gene_stats

SpecGeneStats == GeneInit /\ [][GeneNext]_vars

\* annotation a qualifies for category cat of taxon t
Qualifies(a, t, cat) ==
    /\ t \in Range(annotations[a].taxon_lineage)
    /\ gene_counts[a].present
    /\ Truthy(gene_counts[a][cat])

\* C14: after update_taxon_gene_stats every TaxonNode without a qualifying
\* annotation for a category holds for it n = 0 and mean, median, std, min and
\* max all 0
C14_EmptySample ==
    last = "gene_stats" =>
        \A t \in DOMAIN taxons : \A cat \in Categories :
            (\A a \in DOMAIN annotations : ~Qualifies(a, t, cat)) =>
                /\ t \in DOMAIN stats
                /\ stats[t][cat] = [mean |-> 0, median |-> 0, std |-> 0, min |-> 0,
                                    max |-> 0, n |-> 0]

\* genus 3 has one coding count, two non_coding counts and no pseudogene count,
\* species 2 has none, and one annotation under genus 3 has no coding total_count
C14_Witness ==
    /\ last = "gene_stats"
    /\ stats[3]["coding"].n = 1 /\ stats[3]["non_coding"].n = 2
    /\ stats[3]["pseudogene"].n = 0 /\ stats[2]["coding"].n = 0
    /\ \E a \in DOMAIN annotations :
          gene_counts[a].present /\ gene_counts[a].coding = NoCount /\ 3 \in Range(annotations[a].taxon_lineage)

\* annotation a has a total_count value for category cat
HasValue(a, cat) ==
    gene_counts[a].present /\ gene_counts[a][cat] # NoCount

\* the annotations whose lineage holds t and that have a value for cat
Contributors(t, cat) ==
    {a \in DOMAIN annotations :
        t \in Range(annotations[a].taxon_lineage) /\ HasValue(a, cat)}

\* the total_count values collected for cat on t, in the order of the aggregate
Sample(t, cat) == CategoryCounts(annotations, gene_counts, t, cat)

\* C26: after update_taxon_gene_stats, for every taxon and category the sample
\* holds exactly the total_count of every annotation whose lineage includes the
\* taxon and that has a value for the category, nothing for an annotation with a
\* missing value, and n is the number of annotations that have a value
C26_SampleMembership ==
    last = "gene_stats" =>
        \A t \in DOMAIN taxons : \A cat \in Categories :
            /\ stats[t][cat].n = Cardinality(Contributors(t, cat))
            /\ Len(Sample(t, cat)) = stats[t][cat].n
            /\ \A a \in Contributors(t, cat) :
                  \E i \in DOMAIN Sample(t, cat) : Sample(t, cat)[i] = gene_counts[a][cat]

\* the same for the annotations whose value is not 0: what the code computes
C26_ExceptZeroCounts ==
    last = "gene_stats" =>
        \A t \in DOMAIN taxons : \A cat \in Categories :
            LET C == {a \in Contributors(t, cat) : gene_counts[a][cat] # 0}
            IN  /\ stats[t][cat].n = Cardinality(C)
                /\ Len(Sample(t, cat)) = stats[t][cat].n
                /\ \A a \in C :
                      \E i \in DOMAIN Sample(t, cat) : Sample(t, cat)[i] = gene_counts[a][cat]


----------------------------------------------------------------------------
(* C15 *)

\* the documents of `new` that `old` held differ from them in taxon_lineage only
\* (organism_name and the counters are not kept by the model)
SameButLineage(old, new) ==
    \A k \in DOMAIN new \cap DOMAIN old :
        [new[k] EXCEPT !.taxon_lineage = old[k].taxon_lineage] = old[k]

\* C15 as stated: no step of handle_taxonomy, the rebuild, update_db_stats or
\* update_taxonomy deletes an assembly or an annotation or changes a field of
\* one other than taxon_lineage
C15_LeafFrame ==
    [][last' # "leaf" =>
          /\ DOMAIN assemblies' = DOMAIN assemblies
          /\ DOMAIN annotations' = DOMAIN annotations
          /\ SameButLineage(assemblies, assemblies')
          /\ SameButLineage(annotations, annotations')]_vars

\* C15 amended: no step of these jobs deletes an annotation, adds a leaf record
\* or changes a field of one other than taxon_lineage; an assembly is deleted by
\* update_assemblies_counts only, and only when no annotation refers to it
C15_LeafFrameButOrphanAssemblies ==
    [][last' # "leaf" =>
          /\ DOMAIN annotations' = DOMAIN annotations
          /\ DOMAIN assemblies' \subseteq DOMAIN assemblies
          /\ SameButLineage(assemblies, assemblies')
          /\ SameButLineage(annotations, annotations')
          /\ \A b \in DOMAIN assemblies \ DOMAIN assemblies' :
                /\ pcS = "idle" /\ pcS' = "organisms"
                /\ \A a \in DOMAIN annotations : annotations[a].assembly_accession # b]_vars

\* update_taxonomy has rewritten the lineage of a stored annotation: it differs
\* from the lineage handle_taxonomy returned, under which it was imported
C15_Witness ==
    /\ last = "U_step"
    /\ \E a \in DOMAIN annotations :
          /\ annotations[a].taxid \in DOMAIN h_ret.lineages
          /\ annotations[a].taxon_lineage # h_ret.lineages[annotations[a].taxid]

----------------------------------------------------------------------------
(* The rebuild aborted between two bulk writes *)

\* the run ends between two of its point updates: a bulk_write raises or the
\* process is stopped; what is written stays written, nothing else is
rebuild_abort ==
    /\ pcR \in {"write", "clear"}
    /\ pcR' = "idle"
    /\ rv' = [edges |-> rv.edges, before |-> rv.before, pending |-> rv.pending]
    /\ last' = "R_aborted" /\ fresh' = FALSE
    /\ UNCHANGED <<organisms, taxons, assemblies, annotations, sched>>
    /\ H_unch /\ S_unch /\ U_unch /\ P_unch

NextAbort ==
    \/ \E input \in SUBSET Species \ {{}} : handle_taxonomy_start({}, input)
    \/ handle_taxonomy_step
    \/ rebuild_read_assemblies({})
    \/ rebuild_step
    \/ rebuild_abort
    \/ update_taxonomy_start({})
    \/ update_taxonomy_step
    \/ LeafChange

SpecAbort == Init /\ [][NextAbort]_vars

Aborted == last = "R_aborted"

\* C16: when the rebuild is aborted between two bulk writes, every stored node
\* holds either the children it had when the run began or the children the run
\* computed from the lineages
C16_AbortSafety ==
    Aborted =>
        \A t \in DOMAIN taxons :
            \/ t \in DOMAIN rv.before /\ taxons[t].children = rv.before[t].children
            \/ taxons[t].children = ExpectedChildren(rv.edges, t)

\* an aborted run that had written one node and not yet another: one stored node
\* holds its computed children and no longer its old ones, another still holds
\* its old children and not the computed ones
C16_Witness ==
    /\ Aborted
    /\ \E t, u \in DOMAIN taxons :
          /\ taxons[t].children = ExpectedChildren(rv.edges, t)
          /\ taxons[t].children # rv.before[t].children
          /\ taxons[u].children = rv.before[u].children
          /\ taxons[u].children # ExpectedChildren(rv.edges, u)

----------------------------------------------------------------------------
(* C18 *)

\* the step that calls handle_taxonomy, and the input of the call
HandleTaxonomyCalled == pcH = "idle" /\ last' \in {"H_ret", "H_step"}
CalledInput == IF pcH' = "idle" THEN h_ret'.input ELSE hv'.input

\* C18: a call of handle_taxonomy whose input taxids all have an Organism in the
\* store returns at once, before any fetch, writes neither organisms nor taxon
\* nodes, and returns the stored lineage of every input taxid
C18_FastPath ==
    [][(HandleTaxonomyCalled /\ CalledInput \subseteq DOMAIN organisms) =>
          /\ pcH' = "idle" /\ h_ret'.path = "fast"
          /\ organisms' = organisms /\ taxons' = taxons
          /\ h_ret'.lineages = [t \in CalledInput |-> organisms[t].taxon_lineage]]_vars

\* a call for two stored organisms has returned on the fast path
C18_Witness ==
    /\ last = "H_ret" /\ h_ret.path = "fast"
    /\ h_ret.input = {1, 2} /\ {1, 2} \subseteq DOMAIN organisms
    /\ DOMAIN h_ret.lineages = {1, 2}

----------------------------------------------------------------------------
(* C19 *)

\* save_organisms has returned: every batch was tried, line 95 is reached
SaveOrganismsReturned == pcH = "save_organisms" /\ hv.batches = <<>>

\* C19: after save_organisms returns, no identifier of a sub-batch whose insert
\* failed is in the saved list or has an Organism in the store, and every
\* identifier of a sub-batch whose insert succeeded is in the saved list and has
\* an Organism in the store
C19_FailWholeBatch ==
    SaveOrganismsReturned =>
        /\ \A t \in hv.failed_taxids :
              t \notin Range(hv.saved_taxids) /\ t \notin DOMAIN organisms
        /\ \A t \in Range(hv.saved_taxids) : t \in DOMAIN organisms

----------------------------------------------------------------------------
(* C17 *)

\* handle_taxonomy is at its last return: the hierarchy loop is over
AtReturn == pcH = "hierarchy" /\ hv.queue = <<>> /\ hv.pairs = <<>>

\* the organisms this run inserted that are still in the store
InsertedByRun == Range(hv.saved_taxids) \cap DOMAIN organisms

\* C17: when handle_taxonomy returns, every organism the run inserted that is
\* still in the store has a stored TaxonNode for every taxid of its lineage
C17_NoHalfApplied ==
    AtReturn =>
        \A t \in InsertedByRun : Range(organisms[t].taxon_lineage) \subseteq DOMAIN taxons

----------------------------------------------------------------------------
(* C21 *)

\* update_taxon_hierarchy is running in handle_taxonomy: hv.pairs are the
\* updates it has still to issue
PatchRunning == pcH = "hierarchy" /\ hv.pairs # <<>>

\* C21: update_taxon_hierarchy deletes no node, every node holds afterwards at
\* least the children it held before, and applying the same patch again
\* changes nothing
C21_PatchOnlyAdds ==
    PatchRunning =>
        LET after == ApplyPairs(taxons, hv.pairs) IN
        /\ DOMAIN after = DOMAIN taxons
        /\ \A t \in DOMAIN taxons : taxons[t].children \subseteq after[t].children
        /\ ApplyPairs(after, hv.pairs) = after

\* the patch adds a child to a node that already has another child
C21_Witness ==
    /\ PatchRunning
    /\ \E t \in DOMAIN taxons :
          /\ taxons[t].children # {}
          /\ ApplyPairs(taxons, hv.pairs)[t].children # taxons[t].children

----------------------------------------------------------------------------
(* C22 *)

\* the step of handle_taxonomy that takes the next organism's lineage and
\* computes the updates update_taxon_hierarchy issues for it
PatchComputed == pcH = "hierarchy" /\ hv.queue # <<>> /\ hv'.queue = Tail(hv.queue)

\* C22: every edge (c, p) the patch adds for an organism is a consecutive pair
\* of the lineage of that organism
C22_PatchedEdgesAreConsecutive ==
    [][PatchComputed =>
          \A i \in DOMAIN hv'.pairs :
              LET c == hv'.pairs[i][1]
                  p == hv'.pairs[i][2]
              IN  c \notin taxons[p].children => Follows({Head(hv.queue)}, c, p)]_vars

----------------------------------------------------------------------------
(* C23 *)

\* get_flattened_tree, lines 59-65: parent_by_child built over the nodes in the
\* order the cursor yields them; a later node overwrites the entry of a child
RECURSIVE parent_by_child(_, _)
parent_by_child(tx, order) ==
    IF order = <<>> THEN Empty
    ELSE LET rest == parent_by_child(tx, SubSeq(order, 1, Len(order) - 1))
             p == order[Len(order)]
         IN  [c \in DOMAIN rest \cup tx[p].children |->
                 IF c \in tx[p].children THEN p ELSE rest[c]]

\* taxid c is immediately followed by the stored nodes p1 and p2, p1 # p2, in
\* two stored lineages
TwoParents(c, p1, p2) ==
    /\ p1 # p2 /\ p1 \in DOMAIN taxons /\ p2 \in DOMAIN taxons
    /\ Follows(StoredLineages, c, p1) /\ Follows(StoredLineages, c, p2)

\* C23 as stated: after a rebuild, a taxid that two lineages put under two
\* different parents is a child of one of them only
C23_LastWriteWins ==
    Rebuilt =>
        \A c \in TaxIds, p1 \in TaxIds, p2 \in TaxIds :
            TwoParents(c, p1, p2) =>
                ~(c \in taxons[p1].children /\ c \in taxons[p2].children)

\* C23 amended: after a rebuild, a taxid that two lineages put under two
\* different parents is a child of both; get_flattened_tree reports one of
\* them, the parent whose node its cursor yields last
C23_BothParentsKept ==
    Rebuilt =>
        \A c \in TaxIds, p1 \in TaxIds, p2 \in TaxIds :
            TwoParents(c, p1, p2) =>
                /\ c \in taxons[p1].children /\ c \in taxons[p2].children
                /\ \A order \in Perms(DOMAIN taxons) :
                      LET last_holder == CHOOSE i \in DOMAIN order :
                              /\ c \in taxons[order[i]].children
                              /\ \A j \in DOMAIN order :
                                    c \in taxons[order[j]].children => j <= i
                      IN  parent_by_child(taxons, order)[c] = order[last_holder]

\* a rebuild has returned with taxid 1 under genus 3 in one stored lineage and
\* under family 4 in another
C23_Witness == Rebuilt /\ TwoParents(1, 3, 4)

----------------------------------------------------------------------------
(* The hierarchy over drawn lineages: patches, rebuilds, aggregation and the *)
(* ancestor walk of the read API                                              *)

MaxTreeOps == 2

\* the chains the lineage source may have reported for species t at the time
\* it was fetched: any order of the ancestors 3 and 4, or a part of it
TreeLineages(t) == {<<t>>, <<t, 3>>, <<t, 4>>, <<t, 3, 4>>, <<t, 4, 3>>}

NoWalk == [pc |-> "idle", taxid |-> NoId, parent |-> NoId]

\* the stores as save_organisms and save_taxons leave them, before the
\* hierarchy loop of handle_taxonomy: both species stored with the lineage
\* fetched for each, a node without children for every taxid of a lineage, and
\* one assembly with one annotation imported for species 1
TreeInit ==
    /\ organisms \in {o \in [Species -> {[taxon_lineage |-> l] :
                                           l \in UNION {TreeLineages(t) : t \in Species}}] :
                        \A t \in Species : o[t].taxon_lineage \in TreeLineages(t)}
    /\ taxons = [t \in UNION {Range(organisms[u].taxon_lineage) : u \in Species} |->
                    NewTaxonNode]
    /\ assemblies = [b \in {1} |-> [taxid |-> 1, taxon_lineage |-> organisms[1].taxon_lineage]]
    /\ annotations = [a \in {1} |-> [taxid |-> 1, taxon_lineage |-> organisms[1].taxon_lineage,
                                     assembly_accession |-> 1]]
    /\ pcH = "idle" /\ hv = NoLocals
    /\ pcR = "idle" /\ rv = NoLocals
    /\ pcS = "idle" /\ sv = NoLocals
    /\ pcU = "idle" /\ uv = NoLocals
    /\ h_ret = [input |-> {}, lineages |-> Empty, path |-> "none"]
    /\ last = "stored"
    /\ fresh = FALSE
    /\ ops = 0 /\ overlap = FALSE /\ raced = FALSE
    /\ dropped = {}
    /\ raw = <<>> /\ parsed = <<>>
    /\ fv = NoLocals
    /\ values = <<>> /\ dist = NoLocals
    /\ gene_counts = Empty /\ stats = Empty
    /\ walk = NoWalk

\* handle_taxonomy, lines 45-47: get_ordered_taxons and update_taxon_hierarchy
\* for one saved organism
tree_patch(t) ==
    /\ Busy = {} /\ t \in DOMAIN organisms
    /\ taxons' = ApplyPairs(taxons,
                     HierarchyPairs(get_ordered_taxons(organisms[t].taxon_lineage, taxons)))
    /\ last' = "patched" /\ fresh' = FALSE
    /\ UNCHANGED <<organisms, assemblies, annotations, h_ret, sched, dropped, aux>>
    /\ UNCHANGED <<pcH, hv, pcR, rv, pcS, sv, pcU, uv>>

\* TaxonNode.objects(children=taxid): the stored nodes that hold taxid as a child
Holders(tx, taxid) == {p \in DOMAIN tx : taxid \in tx[p].children}

\* .first() of that query: one of the holders, None (NoId) when there is none
FirstParent(tx, taxid) == IF Holders(tx, taxid) = {} THEN {NoId} ELSE Holders(tx, taxid)

Walk_frame ==
    UNCHANGED <<organisms, taxons, assemblies, annotations, pcH, hv, pcR, rv, pcS, sv,
                pcU, uv, h_ret, last, fresh, ops, overlap, raced, dropped, raw, parsed,
                fv, values, dist, gene_counts, stats>>

\* get_ancestors, lines 39-41: the node of an existing taxid and its first parent
get_ancestors_start(taxid) ==
    /\ walk.pc # "loop" /\ taxid \in DOMAIN taxons
    /\ \E parent \in FirstParent(taxons, taxid) :
          walk' = [pc |-> "loop", taxid |-> taxid, parent |-> parent]
    /\ Walk_frame

\* lines 42-44: one round of the while loop: the parent of the parent
get_ancestors_step ==
    /\ walk.pc = "loop" /\ walk.parent # NoId
    /\ \E parent \in FirstParent(taxons, walk.parent) :
          walk' = [walk EXCEPT !.parent = parent]
    /\ Walk_frame

\* lines 45-49: the loop is over, the ancestors are returned
get_ancestors_return ==
    /\ walk.pc = "loop" /\ walk.parent = NoId
    /\ walk' = [walk EXCEPT !.pc = "returned"]
    /\ Walk_frame

NextTree ==
    \/ \E t \in Species : tree_patch(t)
    \/ ops < MaxTreeOps /\ rebuild_read_assemblies({})
    \/ rebuild_step
    \/ ops < MaxTreeOps /\ stats_assemblies({})
    \/ stats_step
    \/ ops < MaxTreeOps /\ update_taxonomy_start({})
    \/ update_taxonomy_step
    \/ \E taxid \in TaxIds : get_ancestors_start(taxid)
    \/ get_ancestors_step
    \/ get_ancestors_return

SpecTree == TreeInit /\ [][NextTree]_vars

\* a request that is being served goes on being served
SpecTreeFair == SpecTree /\ WF_vars(get_ancestors_step \/ get_ancestors_return)

----------------------------------------------------------------------------
(* C24 *)

ChildrenOf(t) == IF t \in DOMAIN taxons THEN taxons[t].children ELSE {}

RECURSIVE DescendantsIn(_, _)
DescendantsIn(S, n) ==
    IF n = 0 THEN S
    ELSE DescendantsIn(S \cup UNION {ChildrenOf(c) : c \in S}, n - 1)

\* the children of t, their children, and so on
Descendants(t) == DescendantsIn(ChildrenOf(t), Cardinality(TaxIds))

\* C24: whatever lineages are stored and whatever patches and rebuilds have
\* run, no stored node is its own child or its own descendant
C24_Acyclic == \A t \in DOMAIN taxons : t \notin Descendants(t)

----------------------------------------------------------------------------
(* C29 *)

\* C29: every call of get_ancestors for an existing taxid returns: the walk to
\* successive parents reaches a node without parent
C29_GetAncestorsTerminates == (walk.pc = "loop") ~> (walk.pc = "returned")

----------------------------------------------------------------------------
(* C25 *)

\* the ancestor elements of a record that the lineage loop keeps, in the order
\* received
KeptOf(rec) ==
    SelectSeq(rec.lineage, LAMBDA lt : lt.taxId # NoId /\ lt.scientificName # "root")

\* C25: of every parsed organism, the first lineage entry is its taxid, the
\* other entries are the identifiers of the kept ancestors in the order
\* received, the candidates match the lineage index by index, the candidate of
\* the organism has rank "organism", and an ancestor without rank has rank
\* "other"
C25_OutputShape ==
    last = "parsed" =>
        /\ Len(parsed) = Len(OrganismRecords)
        /\ \A k \in DOMAIN parsed :
            LET o == parsed[k]
                kept == KeptOf(OrganismRecords[k])
            IN  /\ o.taxid = OrganismRecords[k].taxId
                /\ o.taxon_lineage[1] = o.taxid
                /\ Tail(o.taxon_lineage) = [i \in 1..Len(kept) |-> kept[i].taxId]
                /\ Len(o.parsed_taxon_lineage) = Len(o.taxon_lineage)
                /\ \A i \in DOMAIN o.taxon_lineage :
                      o.parsed_taxon_lineage[i].taxid = o.taxon_lineage[i]
                /\ o.parsed_taxon_lineage[1].rank = "organism"
                /\ \A i \in 1..Len(kept) :
                      o.parsed_taxon_lineage[i + 1].rank =
                          IF kept[i].rank = "" THEN "other" ELSE kept[i].rank

\* an organism was parsed with two kept ancestors, the second without rank
C25_Witness ==
    /\ last = "parsed" /\ Len(parsed) = 1
    /\ Len(parsed[1].taxon_lineage) = 3
    /\ raw[1].lineage[2].rank = ""
    /\ parsed[1].parsed_taxon_lineage[3].rank = "other"

----------------------------------------------------------------------------
(* C27 *)

\* update_taxonomy has rewritten the lineages of the organism at the head of its
\* queue and has not yet moved to the next one
OrganismProcessed == pcU = "taxons"

\* the Organism of taxid t and every Assembly and Annotation of taxid t hold
\* exactly the lineage l
LineageEverywhere(t, l) ==
    /\ t \in DOMAIN organisms /\ organisms[t].taxon_lineage = l
    /\ \A b \in DOMAIN assemblies : assemblies[b].taxid = t => assemblies[b].taxon_lineage = l
    /\ \A a \in DOMAIN annotations : annotations[a].taxid = t => annotations[a].taxon_lineage = l

\* the rewrite is wholesale for a fetched organism that has an Organism
C27_RewriteWhenStored ==
    OrganismProcessed =>
        LineageEverywhere(Head(uv.queue).taxid, Head(uv.queue).taxon_lineage)

\* C27: after update_taxonomy has processed a fetched organism, the Organism and
\* every Assembly and Annotation of its taxid hold exactly the lineage the
\* authority reported, and the job goes on for every fetched organism, also for
\* one whose taxid has no Organism in the store
C27_WholesaleRewrite ==
    /\ C27_RewriteWhenStored
    /\ last # "U_raised_no_organism"

----------------------------------------------------------------------------
(* C28 *)

\* a handle_taxonomy run is under way: hv.before holds the taxids of the
\* organisms and taxon nodes stored when it started
RunUnderWay == pcH \notin {"idle", "fetch"}

\* the run has removed no TaxonNode that was stored when it started
C28_KeepsTaxonNodes ==
    RunUnderWay => hv.before.taxons \subseteq DOMAIN taxons

\* C28: a run of handle_taxonomy never removes an Organism or a TaxonNode that
\* was in the store before it started, also when an insert of a sub-batch is
\* rejected and the compensating delete runs
C28_NeverRemovesStored ==
    RunUnderWay =>
        /\ hv.before.organisms \subseteq DOMAIN organisms
        /\ hv.before.taxons \subseteq DOMAIN taxons

----------------------------------------------------------------------------
(* update_db_stats and the rebuild on a store left by the import *)

\* the lineages the source reports for species 1, before and after the revision
PassLineages == {ParseOrganism(RecA).taxon_lineage, ParseOrganism(RecA2).taxon_lineage}

\* the taxon nodes after handle_taxonomy stored species 1 with lineage `first`
\* and update_taxonomy then rewrote it to `stored`
NodesAfterImport(first, stored) ==
    LET saved == ApplyPairs([t \in Range(first) |-> NewTaxonNode],
                            HierarchyPairs(first))
        new == SelectSeq(stored, LAMBDA t : t \notin DOMAIN saved)
        inserted == InsertOrdered(saved, new, [i \in DOMAIN new |-> NewTaxonNode]).store
        counted == CountNewTaxons(inserted, new, (1 :> [taxon_lineage |-> stored]),
                                  Empty, Empty)
    IN  ApplyPairs(counted, HierarchyPairs(get_ordered_taxons(stored, counted)))

\* handle_taxonomy stored species 1 and returned its lineage; update_taxonomy
\* ran (the source reporting the same lineage or the revised one); the import
\* then wrote one assembly and up to MaxAnnotations annotations with the
\* lineage of the returned map
PassInit ==
    /\ \E first \in PassLineages, stored \in PassLineages, A \in SUBSET AnnIds :
          /\ organisms = (1 :> [taxon_lineage |-> stored])
          /\ taxons = NodesAfterImport(first, stored)
          /\ assemblies = [b \in {1} |-> [taxid |-> 1, taxon_lineage |-> first]]
          /\ annotations = [a \in A |-> [taxid |-> 1, taxon_lineage |-> first,
                                         assembly_accession |-> 1]]
          /\ h_ret = [input |-> {1}, lineages |-> (1 :> first), path |-> "full"]
    /\ pcH = "idle" /\ hv = NoLocals
    /\ pcR = "idle" /\ rv = NoLocals
    /\ pcS = "idle" /\ sv = NoLocals
    /\ pcU = "idle" /\ uv = NoLocals
    /\ last = "imported"
    /\ fresh = FALSE
    /\ ops = 0 /\ overlap = FALSE /\ raced = FALSE
    /\ dropped = {}
    /\ raw = <<>> /\ parsed = <<>>
    /\ fv = NoLocals
    /\ values = <<>> /\ dist = NoLocals
    /\ gene_counts = Empty /\ stats = Empty
    /\ walk = NoLocals

\* the two passes run one at a time; leaf records change between them
NextPasses ==
    \/ rebuild_read_assemblies({})
    \/ rebuild_step
    \/ stats_assemblies({})
    \/ stats_step
    \/ LeafChange

SpecPasses == PassInit /\ [][NextPasses]_vars

----------------------------------------------------------------------------
(* C30 *)

\* a full rebuild has returned that started right after update_db_stats
\* returned, with no leaf change in between
RebuiltAfterStats == Rebuilt /\ rv.after_stats

\* the taxids held in a children list that have no TaxonNode
Dangling == {c \in UNION {taxons[t].children : t \in DOMAIN taxons} : c \notin DOMAIN taxons}

\* C30: after update_db_stats followed by a full rebuild with no leaf change in
\* between, every taxid held in the children of a TaxonNode has a TaxonNode
C30_NoDanglingChildren ==
    RebuiltAfterStats => Dangling = {}

====
